---- MODULE Spec2Model ----
(***************************************************************************)
(* Model of the stock_training repository: the incremental fetch and       *)
(* cache merge of data_fetcher.get_daily_data, the date-range selection of *)
(* data_processor.prepare_data_for_visualization and the indicator         *)
(* pipeline of indicators.calculate_all_indicators.                        *)
(*                                                                         *)
(* Strings are sequences of one-character strings, so that the code's      *)
(* conversions (str, int, replace, astype(str), strftime) and its string   *)
(* comparisons (max, sort_values on a str column) are computed, not        *)
(* assumed.  A row of a frame is a record with a trade_date and one value  *)
(* column (close) standing for the OHLCV columns.                          *)
(***************************************************************************)
EXTENDS Integers, Sequences, FiniteSets, TLC

(***************************************************************************)
(* Bounds of the model.                                                    *)
(***************************************************************************)
\* trading days of the model: MaxDay + 1 consecutive calendar days
MaxDay == 2
\* close takes the values NAN, 1 .. MaxVal
MaxVal == 1
\* rows of a cache file in the initial state
MaxCacheLen == 2
\* rows pro.daily serves in one behaviour, all responses together
MaxServed == 2

(***************************************************************************)
(* Python strings and integers.                                            *)
(***************************************************************************)
Digits == <<"0", "1", "2", "3", "4", "5", "6", "7", "8", "9">>

DigitVal(c) == CHOOSE n \in 0..9 : Digits[n + 1] = c

\* str(n) for an int n >= 0
RECURSIVE IntToStr(_)
IntToStr(n) ==
    IF n < 10 THEN <<Digits[n + 1]>>
    ELSE Append(IntToStr(n \div 10), Digits[(n % 10) + 1])

\* int(s) for a string of decimal digits
RECURSIVE StrToInt(_)
StrToInt(s) ==
    IF s = <<>> THEN 0
    ELSE 10 * StrToInt(SubSeq(s, 1, Len(s) - 1)) + DigitVal(s[Len(s)])

\* s < t for two strings of digits, by code point, as Python compares str
RECURSIVE StrLess(_, _)
StrLess(s, t) ==
    IF t = <<>> THEN FALSE
    ELSE IF s = <<>> THEN TRUE
    ELSE IF s[1] # t[1] THEN DigitVal(s[1]) < DigitVal(t[1])
    ELSE StrLess(Tail(s), Tail(t))

NotDash(c) == c # "-"

\* data_fetcher.format_date_str applied to a str: every '-' removed
format_date_str(date_str) == SelectSeq(date_str, NotDash)

\* datetime.strftime("%Y-%m-%d") of the day written YYYYMMDD
Strftime(day) ==
    LET s == IntToStr(day)
    IN  SubSeq(s, 1, 4) \o <<"-">> \o SubSeq(s, 5, 6) \o <<"-">> \o SubSeq(s, 7, 8)

(***************************************************************************)
(* The calendar: days written as the integer YYYYMMDD.                     *)
(***************************************************************************)
YearOf(day) == day \div 10000
MonthOf(day) == (day \div 100) % 100
DayOf(day) == day % 100

IsLeap(y) == (y % 4 = 0 /\ y % 100 # 0) \/ y % 400 = 0

DaysInMonth(y, m) ==
    IF m = 2 THEN (IF IsLeap(y) THEN 29 ELSE 28)
    ELSE IF m \in {4, 6, 9, 11} THEN 30
    ELSE 31

IsValidDate(day) ==
    /\ MonthOf(day) \in 1..12
    /\ DayOf(day) \in 1..DaysInMonth(YearOf(day), MonthOf(day))

\* the calendar day following a valid day
NextDay(day) ==
    LET y == YearOf(day)
        m == MonthOf(day)
        d == DayOf(day)
    IN  IF d < DaysInMonth(y, m) THEN day + 1
        ELSE IF m < 12 THEN y * 10000 + (m + 1) * 100 + 1
        ELSE (y + 1) * 10000 + 101

\* config.START_DATE
START_DATE == <<"2", "0", "2", "0", "-", "0", "1", "-", "0", "1">>

\* the first trading day of the model: 2020-01-31, a month end
FirstDay == StrToInt(format_date_str(START_DATE)) + 30

RECURSIVE DateOf(_)
DateOf(i) == IF i = 0 THEN FirstDay ELSE NextDay(DateOf(i - 1))

Dates == {DateOf(i) : i \in 0..MaxDay}

(***************************************************************************)
(* Frames and files.                                                       *)
(***************************************************************************)
\* a missing value of a frame (NaN, an empty CSV field)
NAN == 0

Vals == {NAN} \cup (1..MaxVal)

Symbols == {"A", "B"}

\* Python None, for a ts_code argument
None == "None"

\* the text of a CSV file: trade_date is the text of the field
FileRows == [trade_date : {IntToStr(d) : d \in Dates}, close : Vals]

Range(seq) == {seq[i] : i \in DOMAIN seq}

RECURSIVE SeqsUpTo(_, _)
SeqsUpTo(S, n) ==
    IF n = 0 THEN {<<>>}
    ELSE LET shorter == SeqsUpTo(S, n - 1)
         IN  shorter \cup {Append(s, x) : s \in {t \in shorter : Len(t) = n - 1}, x \in S}

\* a file of the data directory: whether it exists, and its rows under the
\* header line (an existing file without rows holds the header only)
File(exists, rows) == [exists |-> exists, rows |-> rows]

Missing == File(FALSE, <<>>)

\* pd.read_csv: the trade_date column is parsed as int64
read_csv(file) ==
    [i \in DOMAIN file.rows |-> [trade_date |-> StrToInt(file.rows[i].trade_date),
                                 close |-> file.rows[i].close]]

\* df['trade_date'] = df['trade_date'].astype(str) on an int64 column
astype_str(df) ==
    [i \in DOMAIN df |-> [trade_date |-> IntToStr(df[i].trade_date),
                          close |-> df[i].close]]

RECURSIVE MaxStr(_)
MaxStr(S) ==
    LET x == CHOOSE y \in S : TRUE
    IN  IF S = {x} THEN x
        ELSE LET m == MaxStr(S \ {x})
             IN  IF StrLess(m, x) THEN x ELSE m

\* data_fetcher.get_latest_trade_date; None is returned as the empty string,
\* which the caller's `if latest_date:` does not tell from None
get_latest_trade_date(file) ==
    IF ~file.exists THEN <<>>
    ELSE LET df == astype_str(read_csv(file))
         IN  IF df = <<>> THEN <<>>
             ELSE MaxStr({df[i].trade_date : i \in DOMAIN df})

RECURSIVE PickRows(_, _, _)
PickRows(df, keep, i) ==
    IF i > Len(df) THEN <<>>
    ELSE IF i \in keep THEN <<df[i]>> \o PickRows(df, keep, i + 1)
    ELSE PickRows(df, keep, i + 1)

drop_duplicates_all(df) == df

drop_duplicates_first(df) ==
    PickRows(df,
             {i \in DOMAIN df :
                 \A j \in 1..(i - 1) : df[j].trade_date # df[i].trade_date},
             1)

\* df.drop_duplicates(subset=['trade_date'], keep='last')
drop_duplicates(df) ==
    PickRows(df,
             {i \in DOMAIN df :
                 \A j \in (i + 1)..Len(df) : df[j].trade_date # df[i].trade_date},
             1)

RECURSIVE InsertRow(_, _)
InsertRow(sorted, row) ==
    IF sorted = <<>> THEN <<row>>
    ELSE IF StrLess(row.trade_date, sorted[1].trade_date) THEN <<row>> \o sorted
    ELSE <<sorted[1]>> \o InsertRow(Tail(sorted), row)

RECURSIVE SortRows(_)
SortRows(df) ==
    IF df = <<>> THEN <<>>
    ELSE InsertRow(SortRows(SubSeq(df, 1, Len(df) - 1)), df[Len(df)])

sort_values_none(df) == df

\* df.sort_values('trade_date', ascending=True) on a str column
sort_values(df) == SortRows(df)

to_csv_append(file, df) == File(TRUE, file.rows \o df)

\* df.to_csv(file_path, mode='w', header=True, index=False)
to_csv(file, df) == File(TRUE, df)

MergeFrames_response_only(file, df) == sort_values(drop_duplicates(df))

\* get_daily_data, lines 147-162: the response merged with the cache file
MergeFrames(file, df) ==
    LET new == IF file.exists THEN astype_str(read_csv(file)) \o df ELSE df
    IN  sort_values(drop_duplicates(new))

(***************************************************************************)
(* get_daily_data.                                                         *)
(***************************************************************************)
VARIABLES
    today,        \* the day of datetime.now() when config is imported
    stock_basic,  \* the file data/stock_basic.csv; its rows are ts_codes
    daily,        \* daily[s]: the file data/daily/<s>.csv
    pc,           \* where the running call stands
    arg,          \* the ts_code argument of the running call
    all_stocks,   \* the symbols the loop has not reached yet
    cur,          \* the loop variable ts_code
    start_date,   \* the local start_date
    retry_count,  \* the local retry_count
    results,      \* the local results dict
    ret,          \* what the call returned
    requests,     \* history: the pro.daily requests of the running call
    daily0,       \* history: the files when the running call started
    resp,         \* history: the rows pro.daily returned last for cur
    written,      \* history: the symbols whose file get_daily_data has written
    served,       \* history: the number of rows pro.daily has served
    frames,       \* the frame objects of a calculate_all_indicators call
    call,         \* the arguments and locals of a running call of
                  \* data_processor, indicators or main
    out           \* what that call returned; for main, what it has done

vars == <<today, stock_basic, daily, pc, arg, all_stocks, cur, start_date,
          retry_count, results, ret, requests, daily0, resp, written, served,
          frames, call, out>>

\* the state of get_daily_data and of the data directory
fetch_vars == <<today, stock_basic, daily, pc, arg, all_stocks, cur, start_date,
                retry_count, results, ret, requests, daily0, resp, written,
                served>>

\* config.END_DATE
END_DATE == Strftime(today)

\* what the remote stock list can hold after the filter of get_stock_basic
StockLists == {<<"A">>, <<"A", "B">>}

RETRY_COUNT_4 == 3 + 1

\* retry_count = 3
RETRY_COUNT == 3

next_start_date_same(latest_date) == format_date_str(latest_date)

\* start_date = format_date_str(str(int(latest_date) + 1))
next_start_date(latest_date) ==
    format_date_str(IntToStr(StrToInt(latest_date) + 1))

is_up_to_date_gt(latest_date, end_date) ==
    StrToInt(latest_date) > StrToInt(end_date)

\* int(latest_date) >= int(end_date)
is_up_to_date(latest_date, end_date) ==
    StrToInt(latest_date) >= StrToInt(end_date)

in_stock_list_any(ts_code, stock_list) == TRUE

\* ts_code in stock_list['ts_code'].values
in_stock_list(ts_code, stock_list) ==
    \E i \in DOMAIN stock_list : stock_list[i] = ts_code

\* stock_list['ts_code'].unique()
unique(stock_list) ==
    PickRows(stock_list,
             {i \in DOMAIN stock_list :
                 \A j \in 1..(i - 1) : stock_list[j] # stock_list[i]},
             1)

\* results[ts_code] = df
SetItem(dict, key, value) ==
    [k \in DOMAIN dict \cup {key} |-> IF k = key THEN value ELSE dict[k]]

NoResults == [k \in {} |-> <<>>]

Returned(kind, value) == [kind |-> kind, value |-> value]

NotCalled == Returned("none yet", NoResults)

\* no call of data_processor or indicators is running
NoCall == [name |-> "none"]

Responses == SeqsUpTo(FileRows, MaxServed) \ {<<>>}

InitFiles ==
    {File(TRUE, rows) : rows \in SeqsUpTo(FileRows, MaxCacheLen)} \cup {Missing}

\* the symbols that may have a cache file in the initial state; the file of
\* any other symbol appears when get_daily_data writes it
InitCached == {"A"}

Idle ==
    /\ pc = "idle"
    /\ arg = None
    /\ all_stocks = <<>>
    /\ cur = None
    /\ start_date = <<>>
    /\ retry_count = 0
    /\ results = NoResults
    /\ ret = NotCalled
    /\ requests = <<>>
    /\ daily0 = daily
    /\ resp = <<>>

Init ==
    /\ today \in Dates \ {FirstDay}
    /\ stock_basic \in {Missing} \cup {File(TRUE, l) : l \in StockLists}
    /\ daily \in {f \in [Symbols -> InitFiles] :
                    \A s \in Symbols \ InitCached : f[s] = Missing}
    /\ written = {}
    /\ served = 0
    /\ frames = <<>>
    /\ call = NoCall
    /\ out = NoCall
    /\ Idle

\* get_daily_data(ts_code), lines 83-114: the stock list is read, fetched by
\* get_stock_basic when the file is missing, and the symbols are chosen.
\* listing is what get_stock_basic keeps of the remote answer; it is empty
\* when the answer is empty or pro.stock_basic raises.
Call(ts_code, listing) ==
    /\ pc = "idle"
    /\ stock_basic.exists => listing = <<>>
    /\ LET list_file == IF ~stock_basic.exists /\ listing # <<>>
                        THEN File(TRUE, listing)
                        ELSE stock_basic
           stock_list == list_file.rows
       IN  /\ stock_basic' = list_file
           /\ arg' = ts_code
           /\ IF ~list_file.exists
              THEN \* pd.read_csv(stock_list_file) raises FileNotFoundError
                   /\ pc' = "done"
                   /\ ret' = Returned("raised", NoResults)
                   /\ all_stocks' = <<>>
              ELSE IF ts_code # None /\ ~in_stock_list(ts_code, stock_list)
              THEN /\ pc' = "done"
                   /\ ret' = Returned("None", NoResults)
                   /\ all_stocks' = <<>>
              ELSE /\ pc' = "loop"
                   /\ ret' = ret
                   /\ all_stocks' = IF ts_code # None THEN <<ts_code>>
                                    ELSE unique(stock_list)
    /\ results' = NoResults
    /\ requests' = <<>>
    /\ daily0' = daily
    /\ resp' = <<>>
    /\ UNCHANGED <<today, daily, cur, start_date, retry_count, written,
                   served,
                   frames, call, out>>

\* lines 115-136: the loop takes the next symbol and decides what to request
NextSymbol ==
    /\ pc = "loop"
    /\ all_stocks # <<>>
    /\ LET ts_code == Head(all_stocks)
           end_date == format_date_str(END_DATE)
           latest_date == get_latest_trade_date(daily[ts_code])
       IN  /\ cur' = ts_code
           /\ all_stocks' = Tail(all_stocks)
           /\ resp' = <<>>
           /\ IF latest_date # <<>>
              THEN IF is_up_to_date(format_date_str(latest_date), end_date)
                   THEN /\ results' = SetItem(results, ts_code, read_csv(daily[ts_code]))
                        /\ pc' = "loop"
                        /\ UNCHANGED <<start_date, retry_count>>
                   ELSE /\ start_date' = next_start_date(format_date_str(latest_date))
                        /\ retry_count' = RETRY_COUNT
                        /\ pc' = "request"
                        /\ UNCHANGED results
              ELSE /\ start_date' = format_date_str(START_DATE)
                   /\ retry_count' = RETRY_COUNT
                   /\ pc' = "request"
                   /\ UNCHANGED results
    /\ UNCHANGED <<today, stock_basic, daily, arg, ret, requests, daily0, written,
                   served,
                   frames, call, out>>

Request(outcome) ==
    [ts_code |-> cur, start_date |-> start_date,
     end_date |-> format_date_str(END_DATE), outcome |-> outcome]

\* lines 139-174: pro.daily returns rows; they are merged into the cache file
DailyRows(df) ==
    /\ pc = "request"
    /\ retry_count > 0
    /\ served + Len(df) <= MaxServed
    /\ served' = served + Len(df)
    /\ LET merged == MergeFrames(daily[cur], df)
       IN  /\ daily' = [daily EXCEPT ![cur] = to_csv(daily[cur], merged)]
           /\ results' = SetItem(results, cur, merged)
    /\ requests' = Append(requests, Request("rows"))
    /\ resp' = df
    /\ written' = written \cup {cur}
    /\ pc' = "loop"
    /\ UNCHANGED <<today, stock_basic, arg, all_stocks, cur, start_date,
                   retry_count, ret, daily0,
                   frames, call, out>>

after_empty_retry(count) ==
    [retry_count |-> count - 1,
     pc |-> IF count - 1 > 0 THEN "request" ELSE "loop"]

\* lines 177-178: retry_count = 0 and break
after_empty(count) == [retry_count |-> 0, pc |-> "loop"]

\* lines 175-178: pro.daily returns an empty frame
DailyEmpty ==
    /\ pc = "request"
    /\ retry_count > 0
    /\ retry_count' = after_empty(retry_count).retry_count
    /\ requests' = Append(requests, Request("empty"))
    /\ pc' = after_empty(retry_count).pc
    /\ UNCHANGED <<today, stock_basic, daily, arg, all_stocks, cur, start_date,
                   results, ret, daily0, resp, written, served,
                   frames, call, out>>

DailyRaises_propagates ==
    /\ pc = "request"
    /\ retry_count > 0
    /\ requests' = Append(requests, Request("raised"))
    /\ ret' = Returned("raised", NoResults)
    /\ pc' = "done"
    /\ UNCHANGED <<today, stock_basic, daily, arg, all_stocks, cur, start_date,
                   retry_count, results, daily0, resp, written, served,
                   frames, call, out>>

\* lines 180-185: pro.daily raises
DailyRaises ==
    /\ pc = "request"
    /\ retry_count > 0
    /\ retry_count' = retry_count - 1
    /\ requests' = Append(requests, Request("raised"))
    /\ pc' = IF retry_count' > 0 THEN "request" ELSE "loop"
    /\ UNCHANGED <<today, stock_basic, daily, arg, all_stocks, cur, start_date,
                   results, ret, daily0, resp, written, served,
                   frames, call, out>>

\* line 187: return results
LoopEnd ==
    /\ pc = "loop"
    /\ all_stocks = <<>>
    /\ ret' = Returned("dict", results)
    /\ pc' = "done"
    /\ UNCHANGED <<today, stock_basic, daily, arg, all_stocks, cur, start_date,
                   retry_count, results, requests, daily0, resp, written, served,
                   frames, call, out>>

\* the caller has the result; the locals of the call are gone
Return ==
    /\ pc = "done"
    /\ pc' = "idle"
    /\ arg' = None
    /\ all_stocks' = <<>>
    /\ cur' = None
    /\ start_date' = <<>>
    /\ retry_count' = 0
    /\ results' = NoResults
    /\ ret' = NotCalled
    /\ requests' = <<>>
    /\ daily0' = daily
    /\ resp' = <<>>
    /\ UNCHANGED <<today, stock_basic, daily, written, served,
                   frames, call, out>>

Next ==
    \/ \E ts_code \in Symbols \cup {None}, listing \in StockLists \cup {<<>>} :
          Call(ts_code, listing)
    \/ NextSymbol
    \/ \E df \in Responses : DailyRows(df)
    \/ DailyEmpty
    \/ DailyRaises
    \/ LoopEnd
    \/ Return

Spec == Init /\ [][Next]_vars

\* pro.daily is a blocking call: it returns rows, returns an empty frame or
\* raises; the loop steps between two calls always run
Attempt == DailyEmpty \/ DailyRaises \/ \E df \in Responses : DailyRows(df)

FairSpec == Init /\ [][Next]_vars /\ WF_vars(Attempt)

(***************************************************************************)
(* data_processor.prepare_data_for_visualization.                          *)
(***************************************************************************)
\* a pandas Timestamp at midnight
Timestamp(y, m, d) == [year |-> y, month |-> m, day |-> d]

\* pd.to_datetime(df['trade_date'], format='%Y%m%d') on an int64 value
to_datetime_int(n) == Timestamp(n \div 10000, (n \div 100) % 100, n % 100)

\* pd.to_datetime(s) for a str 'YYYY-MM-DD'
to_datetime_str(s) ==
    Timestamp(StrToInt(SubSeq(s, 1, 4)), StrToInt(SubSeq(s, 6, 7)),
              StrToInt(SubSeq(s, 9, 10)))

\* a < b for two Timestamps
TsLess(a, b) ==
    \/ a.year < b.year
    \/ a.year = b.year /\ a.month < b.month
    \/ a.year = b.year /\ a.month = b.month /\ a.day < b.day

\* data_processor.load_stock_data; None is returned as the frame without rows,
\* which process_stock_data does not tell from None
load_stock_data(file) == IF ~file.exists THEN <<>> ELSE read_csv(file)

RECURSIVE InsertIndexed(_, _)
InsertIndexed(sorted, row) ==
    IF sorted = <<>> THEN <<row>>
    ELSE IF TsLess(row.trade_date, sorted[1].trade_date) THEN <<row>> \o sorted
    ELSE <<sorted[1]>> \o InsertIndexed(Tail(sorted), row)

\* df.sort_index(inplace=True) on the trade_date index; rows of one date keep
\* their order
RECURSIVE sort_index(_)
sort_index(df) ==
    IF df = <<>> THEN <<>>
    ELSE InsertIndexed(sort_index(SubSeq(df, 1, Len(df) - 1)), df[Len(df)])

RECURSIVE LastValid(_, _)
LastValid(df, k) ==
    IF k = 0 THEN NAN
    ELSE IF df[k].close # NAN THEN df[k].close
    ELSE LastValid(df, k - 1)

fillna_none(df) == df

\* df.fillna(method='ffill', inplace=True)
fillna_ffill(df) ==
    [i \in DOMAIN df |->
        [df[i] EXCEPT !.close = IF @ # NAN THEN @ ELSE LastValid(df, i - 1)]]

\* data_processor.process_stock_data for a frame with rows
process_stock_data(df) ==
    LET indexed == [i \in DOMAIN df |->
                       [trade_date |-> to_datetime_int(df[i].trade_date),
                        close |-> df[i].close]]
    IN  fillna_ffill(sort_index(indexed))

from_start_after(index, start) == TsLess(start, index)

\* df.index >= start_date
from_start(index, start) == ~TsLess(index, start)

\* df.index <= end_date
to_end(index, end) == ~TsLess(end, index)

\* lines 95-102: the rows of the date range; a bound that is None or '' does
\* not filter
select_range(df, start, end) ==
    LET from == IF start # <<>>
                THEN PickRows(df, {i \in DOMAIN df :
                        from_start(df[i].trade_date, to_datetime_str(start))}, 1)
                ELSE df
    IN  IF end # <<>>
        THEN PickRows(from, {i \in DOMAIN from :
                to_end(from[i].trade_date, to_datetime_str(end))}, 1)
        ELSE from

\* prepare_data_for_visualization(ts_code, start_date, end_date)
Prepare(ts_code, start, end) ==
    /\ pc = "idle"
    /\ call = NoCall
    /\ call' = [name |-> "prepare_data_for_visualization", ts_code |-> ts_code,
                start_date |-> start, end_date |-> end]
    /\ LET df == load_stock_data(daily[ts_code])
       IN  out' = IF df = <<>> THEN Returned("None", <<>>)
                  ELSE Returned("frame",
                                select_range(process_stock_data(df), start, end))
    /\ UNCHANGED <<fetch_vars, frames>>

\* the caller has the frame
PrepareReturn ==
    /\ call # NoCall
    /\ call.name = "prepare_data_for_visualization"
    /\ call' = NoCall
    /\ out' = NoCall
    /\ UNCHANGED <<fetch_vars, frames>>

\* a date bound of the caller: None or 'YYYY-MM-DD'
DateArgs == {<<>>} \cup {Strftime(d) : d \in Dates}

NextViz ==
    \/ \E ts_code \in Symbols, start \in DateArgs, end \in DateArgs :
          Prepare(ts_code, start, end)
    \/ PrepareReturn

\* prepare_data_for_visualization reads the cache files only
InitViz ==
    /\ Init
    /\ today = NextDay(FirstDay)
    /\ ~stock_basic.exists

SpecViz == InitViz /\ [][NextViz]_vars

(***************************************************************************)
(* indicators.calculate_all_indicators.  A frame object is its set of      *)
(* columns and the set of its columns that do not hold numbers; frames is  *)
(* the heap of the frame objects of the call, and a frame is passed by its *)
(* index in the heap.                                                      *)
(***************************************************************************)
required_columns == <<"open", "high", "low", "close", "volume">>

Frame(columns, text) == [columns |-> columns, text |-> text]

\* a frame object and the heap that holds it
Ref(heap, id) == [heap |-> heap, id |-> id]

copy_alias(heap, id) == Ref(heap, id)

\* df.copy()
copy(heap, id) == Ref(Append(heap, heap[id]), Len(heap) + 1)

\* result[name] = ... for every name of added, on a copy of frame id
WithColumns(heap, id, added) ==
    LET result == copy(heap, id)
    IN  Ref([result.heap EXCEPT ![result.id].columns = @ \cup added], result.id)

\* what each indicator function reads and adds
Reads(fn) ==
    CASE fn = "calculate_ma" -> {"close"}
      [] fn = "calculate_macd" -> {"close"}
      [] fn = "calculate_rsi" -> {"close"}
      [] fn = "calculate_kdj" -> {"low", "high", "close"}
      [] fn = "calculate_bollinger_bands" -> {"close"}
      [] fn = "calculate_volume_ma" -> {"volume"}

Adds(fn) ==
    CASE fn = "calculate_ma" -> {"ma5", "ma10", "ma20", "ma30", "ma60"}
      [] fn = "calculate_macd" -> {"macd", "macd_signal", "macd_hist"}
      [] fn = "calculate_rsi" -> {"rsi"}
      [] fn = "calculate_kdj" -> {"kdj_k", "kdj_d", "kdj_j"}
      [] fn = "calculate_bollinger_bands" ->
             {"boll_mid", "boll_std", "boll_upper", "boll_lower"}
      [] fn = "calculate_volume_ma" -> {"volume_ma5", "volume_ma10", "volume_ma20"}

\* the rolling, ewm and diff of an indicator function raise on a column that
\* does not hold numbers, and indexing raises on a column that is missing
Raises(fn, frame) ==
    \/ Reads(fn) \cap frame.text # {}
    \/ ~(Reads(fn) \subseteq frame.columns)

\* lines 186-191, in order
Pipeline ==
    <<"calculate_ma", "calculate_macd", "calculate_rsi", "calculate_kdj",
      "calculate_bollinger_bands", "calculate_volume_ma">>

Calculating == call # NoCall /\ call.name = "calculate_all_indicators"

\* calculate_all_indicators(df) is called with a frame
IndicatorsCall(frame) ==
    /\ pc = "idle"
    /\ call = NoCall
    /\ frames' = <<frame>>
    /\ call' = [name |-> "calculate_all_indicators", df |-> 1, result |-> 0,
                step |-> 0, done |-> FALSE, given |-> frame, raised |-> 0]
    /\ UNCHANGED <<fetch_vars, out>>

\* lines 178-185: the required columns are checked and the frame is copied
CheckColumns ==
    /\ Calculating
    /\ ~call.done
    /\ call.step = 0
    /\ IF \E i \in DOMAIN required_columns :
             required_columns[i] \notin frames[call.df].columns
       THEN /\ out' = Returned("frame", call.df)
            /\ call' = [call EXCEPT !.done = TRUE]
            /\ UNCHANGED frames
       ELSE LET result == copy(frames, call.df)
            IN  /\ frames' = result.heap
                /\ call' = [call EXCEPT !.result = result.id, !.step = 1]
                /\ UNCHANGED out
    /\ UNCHANGED fetch_vars

\* one of lines 186-191: result = calculate_x(result), or the except branch
\* of lines 195-197 when calculate_x raises
IndicatorStep ==
    /\ Calculating
    /\ ~call.done
    /\ call.step \in DOMAIN Pipeline
    /\ LET fn == Pipeline[call.step]
       IN  IF Raises(fn, frames[call.result])
           THEN /\ out' = Returned("frame", call.df)
                /\ call' = [call EXCEPT !.done = TRUE, !.raised = call.step]
                /\ UNCHANGED frames
           ELSE LET result == WithColumns(frames, call.result, Adds(fn))
                IN  /\ frames' = result.heap
                    /\ call' = [call EXCEPT !.result = result.id, !.step = @ + 1]
                    /\ UNCHANGED out
    /\ UNCHANGED fetch_vars

\* line 193: return result
IndicatorsReturn ==
    /\ Calculating
    /\ ~call.done
    /\ call.step = Len(Pipeline) + 1
    /\ out' = Returned("frame", call.result)
    /\ call' = [call EXCEPT !.done = TRUE]
    /\ UNCHANGED <<fetch_vars, frames>>

\* the caller has the result
IndicatorsDone ==
    /\ Calculating
    /\ call.done
    /\ call' = NoCall
    /\ out' = NoCall
    /\ frames' = <<>>
    /\ UNCHANGED fetch_vars

\* the frames a caller may pass: any of the required columns, any of them
\* holding text
InputFrames ==
    UNION {{Frame(columns, text) : text \in SUBSET columns} :
              columns \in SUBSET Range(required_columns)}

\* no file in the data directory: calculate_all_indicators reads none
InitInd ==
    /\ Init
    /\ today = NextDay(FirstDay)
    /\ ~stock_basic.exists
    /\ \A s \in Symbols : ~daily[s].exists

NextInd ==
    \/ \E frame \in InputFrames : IndicatorsCall(frame)
    \/ CheckColumns
    \/ IndicatorStep
    \/ IndicatorsReturn
    \/ IndicatorsDone

SpecInd == InitInd /\ [][NextInd]_vars

(***************************************************************************)
(* main.main: one run of the command line.  The steps of get_daily_data    *)
(* run between FetchDaily and Fetched; out is the sequence of what main    *)
(* has done so far.                                                        *)
(***************************************************************************)
InMain == call # NoCall /\ call.name = "main"

At(step) == InMain /\ call.at = step

Did(what) == out' = Append(out, what)

has_code_any(code) == TRUE

\* if args.code:
has_code(code) == code # None

\* lines 93-107: the arguments are parsed
MainParse(fetch, visualize, code, update_list, save_html) ==
    /\ pc = "idle"
    /\ call = NoCall
    /\ call' = [name |-> "main", fetch |-> fetch, visualize |-> visualize,
                code |-> code, update_list |-> update_list,
                save_html |-> save_html, at |-> "fetch",
                stock_basic0 |-> stock_basic]
    /\ out' = <<>>
    /\ UNCHANGED <<fetch_vars, frames>>

\* lines 110-111 and fetch_data, lines 37-44: with --fetch the stock list is
\* fetched when --update-list is given or the file is missing; listing is what
\* get_stock_basic keeps of the remote answer
FetchStockList(listing) ==
    /\ At("fetch")
    /\ call.fetch
    /\ pc = "idle"
    /\ ~(call.update_list \/ ~stock_basic.exists) => listing = <<>>
    /\ stock_basic' = IF listing # <<>> THEN File(TRUE, listing) ELSE stock_basic
    /\ call' = [call EXCEPT !.at = "daily"]
    /\ Did("fetch_data")
    /\ UNCHANGED <<today, daily, pc, arg, all_stocks, cur, start_date, retry_count,
                   results, ret, requests, daily0, resp, written, served, frames>>

\* line 110 without --fetch
SkipFetch ==
    /\ At("fetch")
    /\ ~call.fetch
    /\ call' = [call EXCEPT !.at = "visualize"]
    /\ UNCHANGED <<fetch_vars, frames, out>>

\* fetch_data, lines 47-56: get_daily_data(ts_code) or get_daily_data()
FetchDaily(listing) ==
    /\ At("daily")
    /\ Call(call.code, listing)

\* fetch_data, lines 50-57: get_daily_data has returned, or the
\* FileNotFoundError of its read of the stock list ends the run
Fetched ==
    /\ At("daily")
    /\ pc = "done"
    /\ IF ret.kind = "raised"
       THEN /\ call' = [call EXCEPT !.at = "raised"]
            /\ Did("raised")
       ELSE /\ call' = [call EXCEPT !.at = "visualize"]
            /\ Did("fetched")
    /\ UNCHANGED <<fetch_vars, frames>>

\* lines 114-118 and visualize_stock: the chart is plotted, and saved with
\* --save-html, or the missing --code is logged
Visualize ==
    /\ At("visualize")
    /\ IF call.visualize
       THEN IF has_code(call.code)
            THEN out' = out \o (IF call.save_html
                                THEN <<"plot_stock", "save_plot_to_html">>
                                ELSE <<"plot_stock">>)
            ELSE Did("error")
       ELSE UNCHANGED out
    /\ call' = [call EXCEPT !.at = "help"]
    /\ UNCHANGED <<fetch_vars, frames>>

\* lines 121-122
Help ==
    /\ At("help")
    /\ IF ~(call.fetch \/ call.visualize)
       THEN Did("print_help")
       ELSE UNCHANGED out
    /\ call' = [call EXCEPT !.at = "exit"]
    /\ UNCHANGED <<fetch_vars, frames>>

\* one run of main on a data directory without cache files
InitMain ==
    /\ Init
    /\ today = NextDay(FirstDay)
    /\ \A s \in Symbols : ~daily[s].exists

NextMain ==
    \/ \E fetch, visualize, update_list, save_html \in BOOLEAN,
          code \in Symbols \cup {None} :
          MainParse(fetch, visualize, code, update_list, save_html)
    \/ \E listing \in StockLists \cup {<<>>} : FetchStockList(listing)
    \/ SkipFetch
    \/ \E listing \in StockLists \cup {<<>>} : FetchDaily(listing)
    \/ NextSymbol
    \/ \E df \in Responses : DailyRows(df)
    \/ DailyEmpty
    \/ DailyRaises
    \/ LoopEnd
    \/ Fetched
    \/ Visualize
    \/ Help

SpecMain == InitMain /\ [][NextMain]_vars

(***************************************************************************)
(* The claims about get_daily_data.                                        *)
(***************************************************************************)
CacheNonEmpty(file) == file.exists /\ file.rows # <<>>

\* the trade dates of a file, as integers YYYYMMDD
DateAt(file, i) == StrToInt(file.rows[i].trade_date)

\* the latest trade date of a non-empty file
LatestCached(file) ==
    CHOOSE d \in {DateAt(file, i) : i \in DOMAIN file.rows} :
        \A j \in DOMAIN file.rows : DateAt(file, j) <= d

HasDuplicateDates(rows) ==
    \E i, j \in DOMAIN rows : i < j /\ rows[i].trade_date = rows[j].trade_date

\* a merge has just been persisted for cur
JustSaved == pc = "loop" /\ resp # <<>> /\ cur \in written

\* C1: a cache file written by get_daily_data holds at most one row for any
\* trade_date, whatever the cache held before and whatever the remote returned
NoDuplicateDates ==
    \A s \in written : ~HasDuplicateDates(daily[s].rows)

\* a merge whose cache already held a date twice and whose response brings
\* that date once more
DedupWitness ==
    /\ JustSaved
    /\ HasDuplicateDates(daily0[cur].rows)
    /\ \E i \in DOMAIN resp, j \in DOMAIN daily0[cur].rows :
          resp[i].trade_date = daily0[cur].rows[j].trade_date

\* C2: a cache file written by get_daily_data has its rows in strictly
\* ascending order of trade date
SortedAscending ==
    \A s \in written :
        \A i \in 1..(Len(daily[s].rows) - 1) :
            DateAt(daily[s], i) < DateAt(daily[s], i + 1)

\* a merge of a response that came newest first into a cache that was not in
\* ascending order either
SortWitness ==
    /\ JustSaved
    /\ Len(resp) = 2
    /\ StrToInt(resp[2].trade_date) < StrToInt(resp[1].trade_date)
    /\ Len(daily0[cur].rows) = 2
    /\ DateAt(daily0[cur], 2) < DateAt(daily0[cur], 1)
    /\ Len(daily[cur].rows) > 1

\* C3: merging the response that has just been persisted once more and
\* persisting again leaves the file as the first merge wrote it
IdempotentMerge ==
    JustSaved => to_csv(daily[cur], MergeFrames(daily[cur], resp)) = daily[cur]

\* a merge into a non-empty cache that changed the file
IdempotentWitness ==
    /\ JustSaved
    /\ CacheNonEmpty(daily0[cur])
    /\ daily[cur] # daily0[cur]
    /\ \E i \in DOMAIN resp, j \in DOMAIN daily0[cur].rows :
          /\ resp[i].trade_date = daily0[cur].rows[j].trade_date
          /\ resp[i].close # daily0[cur].rows[j].close

\* C4: with a non-empty cache whose latest trade date L is before END_DATE,
\* every request starts after L and ends at END_DATE; with a missing or empty
\* cache file the request starts at START_DATE
IncrementalRange ==
    \A i \in DOMAIN requests :
        LET r == requests[i]
            file == daily0[r.ts_code]
        IN  IF CacheNonEmpty(file)
            THEN LatestCached(file) < today =>
                    /\ StrToInt(r.start_date) > LatestCached(file)
                    /\ r.end_date = IntToStr(today)
            ELSE r.start_date = IntToStr(20200101)

\* both kinds of request in one call: an incremental one and one from
\* START_DATE
IncrementalWitness ==
    /\ \E i \in DOMAIN requests :
          /\ CacheNonEmpty(daily0[requests[i].ts_code])
          /\ LatestCached(daily0[requests[i].ts_code]) < today
    /\ \E i \in DOMAIN requests : ~daily0[requests[i].ts_code].exists

\* C5: the start_date of an incremental request is the calendar day after the
\* latest cached trade date, and a valid calendar date
NextDayStart ==
    \A i \in DOMAIN requests :
        LET r == requests[i]
            file == daily0[r.ts_code]
        IN  (CacheNonEmpty(file) /\ LatestCached(file) < today) =>
                /\ StrToInt(r.start_date) = NextDay(LatestCached(file))
                /\ IsValidDate(StrToInt(r.start_date))

\* the outcomes of the requests of the running call for symbol s, in order
OutcomesOf(s) ==
    LET mine == PickRows(requests, {i \in DOMAIN requests : requests[i].ts_code = s}, 1)
    IN  [i \in DOMAIN mine |-> mine[i].outcome]

Trying(s) == pc = "request" /\ cur = s

RetryInv ==
    \A s \in Symbols :
        LET a == OutcomesOf(s)
        IN  /\ Len(a) <= 3
            /\ \A i \in 1..(Len(a) - 1) : a[i] = "raised"
            /\ Trying(s) => Len(a) < 3 /\ \A i \in DOMAIN a : a[i] = "raised"
            /\ (a # <<>> /\ ~Trying(s)) =>
                  a[Len(a)] \in {"rows", "empty"} \/ Len(a) = 3

\* C6: within one call a symbol is requested at most 3 times; an attempt
\* follows only attempts that raised, the attempts stop only when one returned
\* or 3 have raised, and the retry loop terminates
RetryThreeTimes == []RetryInv /\ ((pc = "request") ~> (pc = "loop"))

\* a symbol given up after 3 attempts that all raised
RetryWitness ==
    /\ pc = "loop"
    /\ OutcomesOf(cur) = <<"raised", "raised", "raised">>

\* the call has got past symbol s
Targeted(s) ==
    /\ stock_basic.exists
    /\ s \in Range(stock_basic.rows)
    /\ arg \in {s, None}

Reached(s) ==
    /\ pc \in {"loop", "request", "done"}
    /\ Targeted(s)
    /\ s \notin Range(all_stocks)

UpToDate(file) == CacheNonEmpty(file) /\ LatestCached(file) >= today

\* frame df holds the rows of the file, in the order of the file
HoldsFile(df, file) ==
    /\ Len(df) = Len(file.rows)
    /\ \A i \in DOMAIN df :
          /\ IntToStr(df[i].trade_date) = file.rows[i].trade_date
          /\ df[i].close = file.rows[i].close

\* C7: for a symbol whose latest cached trade date is END_DATE or later, the
\* call issues no request, leaves the file as it was and returns the cached
\* rows under the symbol
AlreadyUpToDate ==
    \A s \in Symbols :
        (pc # "idle" /\ UpToDate(daily0[s])) =>
            /\ \A i \in DOMAIN requests : requests[i].ts_code # s
            /\ daily[s] = daily0[s]
            /\ Reached(s) =>
                  /\ s \in DOMAIN results
                  /\ HoldsFile(results[s], daily0[s])
            /\ (Reached(s) /\ pc = "done") =>
                  /\ ret.kind = "dict"
                  /\ s \in DOMAIN ret.value
                  /\ HoldsFile(ret.value[s], daily0[s])

\* a call that returned for a symbol whose latest cached date is END_DATE
UpToDateWitness ==
    /\ pc = "done"
    /\ \E s \in Symbols :
          /\ Reached(s)
          /\ CacheNonEmpty(daily0[s])
          /\ LatestCached(daily0[s]) = today

UnknownCall ==
    /\ pc # "idle"
    /\ arg # None
    /\ stock_basic.exists
    /\ arg \notin Range(stock_basic.rows)

\* C8: a call for a ts_code that is not in the stock list returns None, issues
\* no request and leaves every cache file as it was
UnknownSymbol ==
    UnknownCall =>
        /\ pc = "done"
        /\ ret.kind = "None"
        /\ requests = <<>>
        /\ daily = daily0

\* a call for a symbol that the stock list does not hold
UnknownWitness == UnknownCall /\ pc = "done" /\ ~daily[arg].exists

(***************************************************************************)
(* The claims about prepare_data_for_visualization.                        *)
(***************************************************************************)
Prepared == call # NoCall /\ call.name = "prepare_data_for_visualization"

\* the day of a Timestamp as the integer YYYYMMDD
DayNum(ts) == ts.year * 10000 + ts.month * 100 + ts.day

\* day d is within the bounds of the call; a bound that is None does not bind
InBounds(d) ==
    /\ call.start_date # <<>> => StrToInt(format_date_str(call.start_date)) <= d
    /\ call.end_date # <<>> => d <= StrToInt(format_date_str(call.end_date))

\* row j of the file comes before row i when the rows are put in date order
Before(file, j, i) ==
    \/ DateAt(file, j) < DateAt(file, i)
    \/ DateAt(file, j) = DateAt(file, i) /\ j < i

\* the close of row i after missing values are filled forward in date order
Filled(file, i) ==
    IF file.rows[i].close # NAN THEN file.rows[i].close
    ELSE LET valid == {j \in DOMAIN file.rows :
                          Before(file, j, i) /\ file.rows[j].close # NAN}
         IN  IF valid = {} THEN NAN
             ELSE file.rows[CHOOSE j \in valid :
                               \A k \in valid : k = j \/ Before(file, k, j)].close

\* the number of rows of frame df with day d and close v
Count(df, d, v) ==
    Cardinality({i \in DOMAIN df : DayNum(df[i].trade_date) = d /\ df[i].close = v})

Ascending(df) ==
    \A i \in 1..(Len(df) - 1) : DayNum(df[i].trade_date) <= DayNum(df[i + 1].trade_date)

NoneIffNoRows ==
    (out.kind = "None") <=> ~CacheNonEmpty(daily[call.ts_code])

\* C9 as stated: None for a missing or empty file, else exactly the cached
\* rows of the date range, in ascending date order
ExactCachedRows ==
    Prepared =>
        /\ NoneIffNoRows
        /\ out.kind = "frame" =>
              /\ Ascending(out.value)
              /\ \A d \in Dates, v \in Vals :
                    Count(out.value, d, v) =
                        Cardinality({i \in DOMAIN daily[call.ts_code].rows :
                            /\ DateAt(daily[call.ts_code], i) = d
                            /\ InBounds(d)
                            /\ daily[call.ts_code].rows[i].close = v})

\* C9 amended: None for a missing or empty file, else one row for each cached
\* row of the date range, in ascending date order, with the cached values
\* after the missing ones are filled forward over the whole file
FilledCachedRows ==
    Prepared =>
        /\ NoneIffNoRows
        /\ out.kind = "frame" =>
              /\ Ascending(out.value)
              /\ \A d \in Dates, v \in Vals :
                    Count(out.value, d, v) =
                        Cardinality({i \in DOMAIN daily[call.ts_code].rows :
                            /\ DateAt(daily[call.ts_code], i) = d
                            /\ InBounds(d)
                            /\ Filled(daily[call.ts_code], i) = v})

\* a call with both bounds on one day that drops a cached row before the range
\* and returns the row of that day with its missing value filled from the
\* dropped row
RangeWitness ==
    /\ Prepared
    /\ out.kind = "frame"
    /\ call.start_date # <<>>
    /\ call.end_date = call.start_date
    /\ Len(out.value) = 1
    /\ Len(daily[call.ts_code].rows) = 2
    /\ out.value[1].close # NAN
    /\ \E i \in DOMAIN daily[call.ts_code].rows :
          /\ DateAt(daily[call.ts_code], i) = DayNum(out.value[1].trade_date)
          /\ daily[call.ts_code].rows[i].close = NAN

(***************************************************************************)
(* The claims about calculate_all_indicators.                              *)
(***************************************************************************)
IndicatorColumns == UNION {Adds(Pipeline[i]) : i \in DOMAIN Pipeline}

MissingRequired(frame) ==
    \E i \in DOMAIN required_columns : required_columns[i] \notin frame.columns

\* C10: the input frame is never modified; the call returns its input, with
\* no indicator column, when a required column is missing or a step raised,
\* and otherwise a frame with the columns of every indicator family
AllOrNothing ==
    Calculating =>
        /\ frames[call.df] = call.given
        /\ call.done =>
              IF MissingRequired(call.given) \/ call.raised # 0
              THEN /\ out.value = call.df
                   /\ frames[out.value].columns \cap IndicatorColumns = {}
              ELSE /\ frames[out.value].columns =
                          call.given.columns \cup IndicatorColumns
                   /\ \A i \in DOMAIN Pipeline :
                          Adds(Pipeline[i]) \subseteq frames[out.value].columns

\* a call in which calculate_kdj raised after three families were computed
PartialWitness ==
    /\ Calculating
    /\ call.done
    /\ call.raised = 4
    /\ \E i \in DOMAIN frames : "rsi" \in frames[i].columns

(***************************************************************************)
(* The claims about main.                                                  *)
(***************************************************************************)
Plots == {"plot_stock", "save_plot_to_html"}

\* C11: with --fetch and --visualize the fetch has completed before anything
\* is plotted; --visualize without --code plots nothing and, once the
\* visualize step is passed, has logged an error; without --fetch and
\* --visualize main prints the help and neither fetches nor plots
MainSequencing ==
    InMain =>
        /\ call.fetch =>
              /\ \A i \in DOMAIN out :
                    out[i] \in Plots => \E j \in 1..(i - 1) : out[j] = "fetched"
              /\ Range(out) \cap Plots # {} => pc = "done"
        /\ (call.visualize /\ call.code = None) =>
              /\ Range(out) \cap Plots = {}
              /\ call.at \in {"help", "exit"} => "error" \in Range(out)
        /\ (~call.fetch /\ ~call.visualize) =>
              /\ pc = "idle"
              /\ requests = <<>>
              /\ daily = daily0
              /\ stock_basic = call.stock_basic0
              /\ Range(out) \subseteq {"print_help"}
              /\ call.at = "exit" => out = <<"print_help">>

\* a run with --fetch, --visualize and --code that requested rows, wrote the
\* cache file and then plotted
MainWitness ==
    /\ At("exit")
    /\ call.fetch
    /\ call.visualize
    /\ call.code \in written
    /\ "plot_stock" \in Range(out)

(***************************************************************************)
(* More claims about get_daily_data.                                       *)
(***************************************************************************)
\* the trade dates of a file, as integers
DatesOf(file) == {DateAt(file, i) : i \in DOMAIN file.rows}

\* the last row of the response for the trade date written date
LastOfResponse(date) ==
    resp[CHOOSE i \in DOMAIN resp :
            /\ resp[i].trade_date = date
            /\ \A j \in DOMAIN resp : resp[j].trade_date = date => j <= i]

\* C12: for a trade date in both the cache file and the response, the row
\* persisted is the row of the response
NewestWins ==
    JustSaved =>
        \A i \in DOMAIN daily[cur].rows :
            LET row == daily[cur].rows[i]
            IN  (/\ \E j \in DOMAIN daily0[cur].rows :
                       daily0[cur].rows[j].trade_date = row.trade_date
                 /\ \E j \in DOMAIN resp : resp[j].trade_date = row.trade_date)
                => row = LastOfResponse(row.trade_date)

\* a merge whose response brings a cached date with another value
NewestWitness ==
    /\ JustSaved
    /\ Len(resp) = 1
    /\ Len(daily0[cur].rows) = 2
    /\ daily0[cur].rows[2].trade_date = resp[1].trade_date
    /\ daily0[cur].rows[2].close # resp[1].close
    /\ daily0[cur].rows[1].trade_date # resp[1].trade_date

\* C13: after pro.daily returned an empty frame for a symbol, the call makes
\* no further request for it, its cache file is as before the call and the
\* symbol is not in the result
EmptyNotRetried ==
    \A s \in Symbols :
        LET a == OutcomesOf(s)
        IN  (\E i \in DOMAIN a : a[i] = "empty") =>
                /\ a[Len(a)] = "empty"
                /\ ~Trying(s)
                /\ daily[s] = daily0[s]
                /\ s \notin DOMAIN results
                /\ pc = "done" => ret.kind = "dict" /\ s \notin DOMAIN ret.value

\* a call that returned after an empty response for a symbol with a
\* non-empty cache file, the response coming after a failed attempt
EmptyWitness ==
    /\ pc = "done"
    /\ \E s \in Symbols :
          /\ OutcomesOf(s) = <<"raised", "empty">>
          /\ CacheNonEmpty(daily[s])

\* C14: when every attempt for a symbol raised, its cache file is as before
\* the call and the symbol is not in the result; the call returns its result
\* whatever the requests did
FailureKeepsCache ==
    /\ \A s \in Symbols :
          OutcomesOf(s) = <<"raised", "raised", "raised">> =>
              /\ daily[s] = daily0[s]
              /\ s \notin DOMAIN results
              /\ pc = "done" => s \notin DOMAIN ret.value
    /\ (pc = "done" /\ requests # <<>>) => ret.kind = "dict"

\* a call that returned after three failed attempts for a symbol with a
\* non-empty cache file
FailureWitness ==
    /\ pc = "done"
    /\ ret.kind = "dict"
    /\ \E s \in Symbols :
          /\ OutcomesOf(s) = <<"raised", "raised", "raised">>
          /\ CacheNonEmpty(daily[s])

\* C15: no step removes a trade date from a cache file or lowers its latest
\* trade date
CacheOnlyGrows ==
    [][\A s \in Symbols :
          /\ daily[s].exists => daily'[s].exists
          /\ DatesOf(daily[s]) \subseteq DatesOf(daily'[s])
          /\ CacheNonEmpty(daily[s]) =>
                LatestCached(daily'[s]) >= LatestCached(daily[s])]_vars

\* a merge that added a date before the latest cached one and kept the rest
GrowWitness ==
    /\ JustSaved
    /\ CacheNonEmpty(daily0[cur])
    /\ DatesOf(daily0[cur]) # DatesOf(daily[cur])
    /\ DatesOf(daily0[cur]) \subseteq DatesOf(daily[cur])
    /\ LatestCached(daily[cur]) = LatestCached(daily0[cur])

====
